---- MODULE Spec2Model ----
(***************************************************************************)
(* Model of SiteMapCollector (Sitemap_collector.py): the bounded recursive *)
(* sitemap traversal started from robots.txt.                              *)
(*                                                                         *)
(* Strings are sequences of one-character strings, so that startswith,     *)
(* split, strip and the regular expression \.xml$ are computed as the code *)
(* computes them.  A response body of robots.txt is the sequence of its    *)
(* lines; a response body of a sitemap is the sequence of its elements,    *)
(* each a record [tag, text].  The empty string "" is the empty sequence   *)
(* in both representations.                                                *)
(*                                                                         *)
(* The recursion of _parse_sitemap is an explicit call stack of frames     *)
(* [url, found_urls, i, fid]: i is the position of the for loop of lines   *)
(* 72-75 and fid the number of the frame's fetch in fetchLog.              *)
(* fetchLog and recordLog are history variables: the sequence of requests  *)
(* sent for sitemap addresses and the sequence of writes to                *)
(* collected_data.                                                         *)
(***************************************************************************)
EXTENDS Integers, Sequences, FiniteSets, TLC

\* ---------------------------------------------------------------- bounds
MaxBudget == 5
MaxLinks == 2
MaxLines == 2

\* ------------------------------------------------------------ characters
A_XML == <<"a", ".", "x", "m", "l">>
B_XML == <<"b", ".", "x", "m", "l">>
P1 == <<"p", "1">>

SitemapPrefix == <<"S", "i", "t", "e", "m", "a", "p", ":">>
Delimiter == <<":", " ">>
XmlSuffix == <<".", "x", "m", "l">>
Whitespace == {" ", "\t", "\n", "\r"}

\* the robots.txt lines the environment may serve
LineSitemapA == SitemapPrefix \o <<" ">> \o A_XML
LineSitemapB == SitemapPrefix \o <<" ">> \o B_XML
LineNoSpace == SitemapPrefix \o A_XML
LineBare == SitemapPrefix
LineOther == <<"D", ":", " ", "/">>
Lines == {LineSitemapA, LineSitemapB, LineNoSpace, LineBare, LineOther}

Addresses == {A_XML, B_XML, P1}

SeqsUpTo(S, n) == UNION {[1..k -> S] : k \in 0..n}

\* a sitemap body: its elements in document order
Elements == [tag : {"loc"}, text : Addresses]
SitemapBodies == SeqsUpTo(Elements, MaxLinks)
RobotsBodies == SeqsUpTo(Lines, MaxLines)
\* the body of an error response: empty, or a page that holds a loc element
ErrorBodies == {<<>>, <<[tag |-> "loc", text |-> A_XML]>>}
Responses == [ok : {TRUE}, body : SitemapBodies] \cup [ok : {FALSE}, body : ErrorBodies]

\* ------------------------------------------------------- string functions
\* str.startswith
StartsWith(s, p) == Len(s) >= Len(p) /\ SubSeq(s, 1, Len(p)) = p

\* positions at which sep occurs in s
Occurrences(s, sep) ==
    {k \in 1..(Len(s) - Len(sep) + 1) : SubSeq(s, k, k + Len(sep) - 1) = sep}

Min(S) == CHOOSE x \in S : \A y \in S : x <= y

\* str.split(sep) with a non-empty separator
RECURSIVE Split(_, _)
Split(s, sep) ==
    IF Occurrences(s, sep) = {}
    THEN <<s>>
    ELSE LET k == Min(Occurrences(s, sep))
         IN  <<SubSeq(s, 1, k - 1)>> \o Split(SubSeq(s, k + Len(sep), Len(s)), sep)

\* str.strip()
RECURSIVE LStrip(_)
LStrip(s) == IF s # <<>> /\ Head(s) \in Whitespace THEN LStrip(Tail(s)) ELSE s

RECURSIVE RStrip(_)
RStrip(s) ==
    IF s # <<>> /\ s[Len(s)] \in Whitespace THEN RStrip(SubSeq(s, 1, Len(s) - 1)) ELSE s

Strip(s) == RStrip(LStrip(s))

EndsWith(s, p) == Len(s) >= Len(p) /\ SubSeq(s, Len(s) - Len(p) + 1, Len(s)) = p

\* re.search(r"\.xml$", link): $ matches at the end and before a final newline
MatchesXml(link) == EndsWith(link, XmlSuffix) \/ EndsWith(link, XmlSuffix \o <<"\n">>)

\* str.splitlines() of a body held as its lines
SplitLines(content) == content

\* ------------------------------------------------------------------ state
VARIABLES
    web,             \* the response of the site for each address requested so far
    max_sitemaps,    \* self.max_sitemaps
    sitemap_count,   \* self.sitemap_count
    collected_data,  \* self.collected_data, an insertion-ordered dict
    robots_status,   \* "pending", "ok" or "failed": the robots.txt request
    robots_lines,    \* robots_content.splitlines()
    line_idx,        \* position of the for loop of _search_sitemaps
    stack,           \* the activations of _parse_sitemap, innermost last
    pc,              \* "start", "scan", "done" or "raised"
    fetchLog,        \* history: the sitemap requests sent, in order
    recordLog        \* history: the fids whose entry was written, in order

vars == <<web, max_sitemaps, sitemap_count, collected_data, robots_status,
          robots_lines, line_idx, stack, pc, fetchLog, recordLog>>

\* ------------------------------------------------------------ dict (3.7+)
Keys(d) == {d[k].key : k \in DOMAIN d}

KeyIndex(d, key) == CHOOSE k \in DOMAIN d : d[k].key = key

Lookup(d, key) == d[KeyIndex(d, key)].value

\* d[key] = value, always appending: a list of pairs instead of a dict
DictSetAppend(d, key, value) == Append(d, [key |-> key, value |-> value])

\* d[key] = value, dropped
DictSetDropped(d, key, value) == d

\* d[key] = value: a new key goes last, an existing key keeps its place
DictSet(d, key, value) ==
    IF key \in Keys(d)
    THEN [d EXCEPT ![KeyIndex(d, key)].value = value]
    ELSE Append(d, [key |-> key, value |-> value])

\* ------------------------------------------------------------ the methods
\* _request_content without raise_for_status: the body of an error response
RequestContentUnchecked(ok, body) == body

\* _request_content: the response text, or "" on a RequestException
RequestContent(ok, body) == IF ok THEN body ELSE <<>>

\* _extract_links: the text of every loc element, in document order
ExtractLinks(xml_content) ==
    [k \in 1..Len(xml_content) |-> xml_content[k].text]

\* the responses the site may give for url: any response to a first request,
\* the same response again to a later one
Served(url) == IF url \in DOMAIN web THEN {web[url]} ELSE Responses

\* the guard of lines 73 and 100, off by one
BudgetLeftInclusive(count, max) == count <= max

\* self.sitemap_count < self.max_sitemaps (lines 73 and 100)
BudgetLeft(count, max) == count < max

\* the early return of line 66
BudgetExhausted(count, max) == count >= max

\* the for loop of line 72 taken from the end
LinkAtReversed(found_urls, i) == found_urls[Len(found_urls) + 1 - i]

\* the link of iteration i of the for loop of line 72
LinkAt(found_urls, i) == found_urls[i]

\* a for loop that never advances
NextIndexStuck(i) == i

\* the next iteration of a for loop
NextIndex(i) == i + 1

Top == stack[Len(stack)]

\* _parse_sitemap up to the for loop, and recording its entry before it
ParseSitemapRecordFirst(url, parent, idx, callers, count) ==
    IF BudgetExhausted(count, max_sitemaps)
    THEN /\ stack' = callers
         /\ UNCHANGED <<web, fetchLog, collected_data, recordLog>>
    ELSE \E resp \in Served(url) :
         LET found_urls == ExtractLinks(RequestContent(resp.ok, resp.body))
             fid == Len(fetchLog) + 1
         IN  /\ web' = (url :> resp) @@ web
             /\ fetchLog' = Append(fetchLog, [url |-> url, ok |-> resp.ok,
                                   links |-> found_urls, parent |-> parent, idx |-> idx])
             /\ stack' = Append(callers, [url |-> url, found_urls |-> found_urls,
                                          i |-> 1, fid |-> fid])
             /\ collected_data' = DictSet(collected_data, url, found_urls)
             /\ recordLog' = Append(recordLog, fid)

\* _parse_sitemap(url) called with sitemap_count = count, lines 66-70: the
\* early return, or the request, the extraction and a new frame at the
\* start of the for loop.  parent and idx say where the call comes from.
ParseSitemap(url, parent, idx, callers, count) ==
    IF BudgetExhausted(count, max_sitemaps)
    THEN /\ stack' = callers
         /\ UNCHANGED <<web, fetchLog, collected_data, recordLog>>
    ELSE \E resp \in Served(url) :
         LET found_urls == ExtractLinks(RequestContent(resp.ok, resp.body))
             fid == Len(fetchLog) + 1
         IN  /\ web' = (url :> resp) @@ web
             /\ fetchLog' = Append(fetchLog, [url |-> url, ok |-> resp.ok,
                                   links |-> found_urls, parent |-> parent, idx |-> idx])
             /\ stack' = Append(callers, [url |-> url, found_urls |-> found_urls,
                                          i |-> 1, fid |-> fid])
             /\ UNCHANGED <<collected_data, recordLog>>

Init ==
    /\ web = <<>>
    /\ max_sitemaps \in 1..MaxBudget
    /\ sitemap_count = 0
    /\ collected_data = <<>>
    /\ robots_status = "pending"
    /\ robots_lines = <<>>
    /\ line_idx = 1
    /\ stack = <<>>
    /\ pc = "start"
    /\ fetchLog = <<>>
    /\ recordLog = <<>>

\* _search_sitemaps, line 96: the robots.txt request
RequestRobots ==
    /\ pc = "start"
    /\ \E ok \in BOOLEAN, body \in RobotsBodies :
          /\ robots_status' = (IF ok THEN "ok" ELSE "failed")
          /\ robots_lines' = SplitLines(RequestContent(ok, body))
    /\ pc' = "scan"
    /\ UNCHANGED <<web, max_sitemaps, sitemap_count, collected_data, line_idx,
                   stack, fetchLog, recordLog>>

\* _search_sitemaps, lines 97-102: one iteration of the loop over the lines
ScanLine ==
    /\ pc = "scan"
    /\ stack = <<>>
    /\ line_idx <= Len(robots_lines)
    /\ LET line == robots_lines[line_idx]
           parts == Split(line, Delimiter)
       IN  IF ~StartsWith(line, SitemapPrefix)
           THEN /\ line_idx' = NextIndex(line_idx)
                /\ UNCHANGED <<web, sitemap_count, stack, pc, fetchLog,
                               collected_data, recordLog>>
           ELSE IF Len(parts) < 2
           THEN \* line.split(": ")[1] raises IndexError
                /\ pc' = "raised"
                /\ UNCHANGED <<web, sitemap_count, line_idx, stack, fetchLog,
                               collected_data, recordLog>>
           ELSE IF BudgetLeft(sitemap_count, max_sitemaps)
           THEN /\ sitemap_count' = sitemap_count + 1
                /\ ParseSitemap(Strip(parts[2]), 0, line_idx, <<>>,
                                sitemap_count + 1)
                /\ line_idx' = NextIndex(line_idx)
                /\ UNCHANGED pc
           ELSE /\ line_idx' = NextIndex(line_idx)
                /\ UNCHANGED <<web, sitemap_count, stack, pc, fetchLog,
                               collected_data, recordLog>>
    /\ UNCHANGED <<max_sitemaps, robots_status, robots_lines>>

\* _parse_sitemap, lines 72-75: one iteration of the loop over found_urls
FollowLink ==
    /\ pc = "scan"
    /\ stack # <<>>
    /\ Top.i <= Len(Top.found_urls)
    /\ LET link == LinkAt(Top.found_urls, Top.i)
           callers == [stack EXCEPT ![Len(stack)].i = NextIndex(Top.i)]
       IN  IF MatchesXml(link) /\ BudgetLeft(sitemap_count, max_sitemaps)
           THEN /\ sitemap_count' = sitemap_count + 1
                /\ ParseSitemap(link, Top.fid, Top.i, callers, sitemap_count + 1)
           ELSE /\ stack' = callers
                /\ UNCHANGED <<web, sitemap_count, fetchLog, collected_data, recordLog>>
    /\ UNCHANGED <<max_sitemaps, robots_status, robots_lines, line_idx, pc>>

\* _parse_sitemap, line 77 and the return
StoreAndReturn ==
    /\ pc = "scan"
    /\ stack # <<>>
    /\ Top.i > Len(Top.found_urls)
    /\ collected_data' = DictSet(collected_data, Top.url, Top.found_urls)
    /\ recordLog' = Append(recordLog, Top.fid)
    /\ stack' = SubSeq(stack, 1, Len(stack) - 1)
    /\ UNCHANGED <<web, max_sitemaps, sitemap_count, robots_status, robots_lines,
                   line_idx, pc, fetchLog>>

\* _search_sitemaps and __init__ return
Finish ==
    /\ pc = "scan"
    /\ stack = <<>>
    /\ line_idx > Len(robots_lines)
    /\ pc' = "done"
    /\ UNCHANGED <<web, max_sitemaps, sitemap_count, collected_data, robots_status,
                   robots_lines, line_idx, stack, fetchLog, recordLog>>

Next == RequestRobots \/ ScanLine \/ FollowLink \/ StoreAndReturn \/ Finish

Spec == Init /\ [][Next]_vars

\* a sequential program takes its next step whenever it has one
FairSpec == Spec /\ WF_vars(Next)

\* ------------------------------------------------------- derived notions
Fetches == DOMAIN fetchLog

FetchedUrls == {fetchLog[k].url : k \in Fetches}

FetchCount(u) == Cardinality({k \in Fetches : fetchLog[k].url = u})

Recorded == {recordLog[n] : n \in DOMAIN recordLog}

\* the position of the first write of fetch k
FirstRecord(k) == Min({n \in DOMAIN recordLog : recordLog[n] = k})

\* the fetches made by descending from fetch j
Children(j) == {k \in Fetches : fetchLog[k].parent = j}

\* k is the first fetch of its address
FirstFetch(k) == \A j \in Fetches : fetchLog[j].url = fetchLog[k].url => k <= j

OkResponse(links) ==
    [ok |-> TRUE, body |-> [n \in 1..Len(links) |-> [tag |-> "loc", text |-> links[n]]]]

\* the site serves links for url (as far as url has been requested)
Declares(url, links) == url \in DOMAIN web => web[url] = OkResponse(links)

\* robots.txt is the single line "Sitemap: a.xml"
SingleEntryA == robots_status = "ok" /\ robots_lines = <<LineSitemapA>>

\* the entry point declared by a robots.txt line
EntryPoint(line) == Strip(Split(line, Delimiter)[2])

\* the position of a fetch in the traversal tree: the line of its entry
\* point, then the link positions leading down to it
RECURSIVE Path(_)
Path(k) ==
    IF fetchLog[k].parent = 0
    THEN <<fetchLog[k].idx>>
    ELSE Path(fetchLog[k].parent) \o <<fetchLog[k].idx>>

\* p comes before q in depth-first pre-order
PreOrderBefore(p, q) ==
    \/ Len(p) < Len(q) /\ SubSeq(q, 1, Len(p)) = p
    \/ \E n \in 1..Len(p) :
          /\ n <= Len(q)
          /\ SubSeq(p, 1, n - 1) = SubSeq(q, 1, n - 1)
          /\ p[n] < q[n]

\* ----------------------------------------------------------------- claims

\* C1: the number of sitemap requests of one traversal (the robots.txt
\* request not counted) never exceeds the budget, and neither does
\* sitemap_count, whatever the site serves.
C1_BudgetInvariant ==
    /\ Len(fetchLog) <= max_sitemaps
    /\ sitemap_count <= max_sitemaps

\* the budget ran out on a sitemap that declares itself
C1_Witness ==
    /\ pc = "done"
    /\ sitemap_count = max_sitemaps
    /\ Len(fetchLog) >= 3
    /\ \E k \in Fetches : \E n \in DOMAIN fetchLog[k].links :
          fetchLog[k].links[n] = fetchLog[k].url

\* C2: with robots.txt declaring the single entry point a.xml, a.xml
\* declaring [b.xml, p1] and a budget of 1, the traversal requests a.xml and
\* only a.xml, and a.xml is a key of the result mapping.
C2_ForcedTermination ==
    (/\ pc = "done"
     /\ max_sitemaps = 1
     /\ SingleEntryA
     /\ Declares(A_XML, <<B_XML, P1>>))
    => /\ [k \in Fetches |-> fetchLog[k].url] = <<A_XML>>
       /\ A_XML \in Keys(collected_data)

\* C3: the traversal eventually terminates, whatever the site serves and
\* for every budget; when a.xml declares itself and the budget is 3, it
\* never makes more than 3 visits.
C3_Terminates ==
    /\ <>(pc \in {"done", "raised"})
    /\ [](max_sitemaps = 3 /\ Declares(A_XML, <<A_XML>>) /\ SingleEntryA
            => Len(fetchLog) <= 3)

\* a.xml declares itself, the budget is 3, and the traversal has returned
\* after fetching a.xml twice
C3_Witness ==
    /\ pc = "done"
    /\ max_sitemaps = 3
    /\ SingleEntryA
    /\ A_XML \in DOMAIN web /\ web[A_XML] = OkResponse(<<A_XML>>)
    /\ FetchCount(A_XML) = 2

\* the Recursive unfolding instance of C4: a.xml declares [b.xml, p1], b.xml
\* is served and declares no .xml link, budget 5
C4_Instance ==
    /\ max_sitemaps = 5
    /\ SingleEntryA
    /\ Declares(A_XML, <<B_XML, P1>>)
    /\ B_XML \in DOMAIN web => /\ web[B_XML].ok
                               /\ \A n \in DOMAIN web[B_XML].body :
                                     ~MatchesXml(web[B_XML].body[n].text)

\* C4: when the traversal returns, the keys of the result mapping are
\* exactly the addresses that were requested; in the instance they are
\* a.xml and b.xml, and results[a.xml] = [b.xml, p1].
C4_KeysAreFetched ==
    pc = "done" =>
        /\ Keys(collected_data) = FetchedUrls
        /\ C4_Instance => /\ Keys(collected_data) = {A_XML, B_XML}
                          /\ Lookup(collected_data, A_XML) = <<B_XML, P1>>

\* the instance has returned, and so has a traversal that discovered an
\* .xml link it did not fetch
C4_Witness ==
    /\ pc = "done"
    /\ \/ C4_Instance /\ Keys(collected_data) = {A_XML, B_XML}
       \/ /\ fetchLog # <<>>
          /\ \E k \in Fetches : \E n \in DOMAIN fetchLog[k].links :
                /\ MatchesXml(fetchLog[k].links[n])
                /\ fetchLog[k].links[n] \notin FetchedUrls

\* C5: when the robots.txt request fails, no sitemap is requested,
\* sitemap_count stays 0, the result mapping stays empty and no error is
\* raised.
C5_RobotsFailure ==
    robots_status = "failed" =>
        /\ fetchLog = <<>>
        /\ sitemap_count = 0
        /\ collected_data = <<>>
        /\ robots_lines = <<>>
        /\ pc # "raised"

\* the traversal has returned after a failed robots.txt request
C5_Witness == robots_status = "failed" /\ pc = "done"

\* C6 as stated: when the traversal returns, the result mapping has no
\* entry for an address whose request failed, and no link is followed from
\* it.
C6_NoEntryForFailedFetch ==
    pc = "done" =>
        \A k \in Fetches :
            ~fetchLog[k].ok => /\ fetchLog[k].url \notin Keys(collected_data)
                               /\ Children(k) = {}

\* C6, amended: a visit whose request failed extracts no link and follows
\* none, and records an entry with an empty link list: the entry is empty
\* right after the visit writes it, and the address is a key of the result
\* mapping when the traversal returns.
C6_FailedFetchEmptyEntry ==
    \A k \in Fetches :
        ~fetchLog[k].ok =>
            /\ fetchLog[k].links = <<>>
            /\ Children(k) = {}
            /\ (recordLog # <<>> /\ recordLog[Len(recordLog)] = k)
                  => /\ fetchLog[k].url \in Keys(collected_data)
                     /\ Lookup(collected_data, fetchLog[k].url) = <<>>
            /\ pc = "done" => fetchLog[k].url \in Keys(collected_data)

\* the traversal has returned after a failed request of a nested sitemap
C6_Witness ==
    /\ pc = "done"
    /\ \E k \in Fetches : ~fetchLog[k].ok /\ fetchLog[k].parent # 0

\* C7: no error is ever surfaced to the caller of the traversal, whatever
\* robots.txt holds.
C7_NoErrorSurfaced == pc # "raised"

\* C8 as stated: each address is requested at most once in one traversal.
C8_FetchedAtMostOnce == \A u \in Addresses : FetchCount(u) <= 1

\* C8, amended: an address may be requested more than once, but never more
\* often than the budget, and the result mapping keeps one entry for it.
C8_RefetchBounded ==
    /\ \A u \in Addresses : FetchCount(u) <= max_sitemaps
    /\ Cardinality(Keys(collected_data)) = Len(collected_data)

\* an address has been requested by descending from two different parents,
\* and the traversal has returned
C8_Witness ==
    /\ pc = "done"
    /\ \E j, k \in Fetches :
          /\ j # k
          /\ fetchLog[j].url = fetchLog[k].url
          /\ fetchLog[j].parent # fetchLog[k].parent

\* C9: requests are made in depth-first document order: each request is for
\* the entry point of the robots.txt line, or the declared link of its
\* parent, at the position it records, and the requests follow each other
\* in pre-order of these positions (the subtree of an entry point before the
\* next entry point, the subtree of a link before the next link).
C9_DepthFirstOrder ==
    /\ \A k \in Fetches :
          LET f == fetchLog[k]
          IN  IF f.parent = 0
              THEN /\ f.idx \in DOMAIN robots_lines
                   /\ StartsWith(robots_lines[f.idx], SitemapPrefix)
                   /\ f.url = EntryPoint(robots_lines[f.idx])
              ELSE /\ f.parent \in 1..(k - 1)
                   /\ f.idx \in DOMAIN fetchLog[f.parent].links
                   /\ f.url = fetchLog[f.parent].links[f.idx]
                   /\ MatchesXml(f.url)
    /\ \A j, k \in Fetches : j < k => PreOrderBefore(Path(j), Path(k))

\* two entry points were fetched, the first with a subtree, and two sibling
\* links of one document were fetched
C9_Witness ==
    /\ pc = "done"
    /\ \E i, j, k \in Fetches :
          /\ fetchLog[i].parent = 0 /\ fetchLog[i].idx = 1
          /\ fetchLog[j].parent = i
          /\ fetchLog[k].parent = 0 /\ fetchLog[k].idx = 2
    /\ \E j, k \in Fetches :
          /\ fetchLog[j].parent # 0
          /\ fetchLog[j].parent = fetchLog[k].parent
          /\ fetchLog[j].idx # fetchLog[k].idx

\* C10 as stated: for a parent P and a child C first fetched by descending
\* from P, the key P is inserted into the result mapping before the key C.
C10_ParentKeyFirst ==
    \A k \in Fetches :
        (/\ fetchLog[k].parent # 0
         /\ FirstFetch(k)
         /\ fetchLog[k].url \in Keys(collected_data))
        => LET P == fetchLog[fetchLog[k].parent].url
           IN  /\ P \in Keys(collected_data)
               /\ KeyIndex(collected_data, P)
                     < KeyIndex(collected_data, fetchLog[k].url)

\* C10, amended: a visit writes its entry after every child visit descended
\* from it has written its own (post-order), so that the address of every
\* child is a key of the result mapping when the parent's entry is written.
C10_ChildrenRecordedFirst ==
    \A j \in Recorded : \A k \in Children(j) :
        /\ k \in Recorded
        /\ FirstRecord(k) < FirstRecord(j)
        /\ fetchLog[k].url \in Keys(collected_data)

\* a parent and its child, of different addresses, have both written their
\* entries
C10_Witness ==
    \E j \in Recorded : \E k \in Children(j) :
        /\ fetchLog[k].url # fetchLog[j].url
        /\ collected_data = <<[key |-> fetchLog[k].url, value |-> fetchLog[k].links],
                              [key |-> fetchLog[j].url, value |-> fetchLog[j].links]>>

====
